---- MODULE Spec2Model ----
(***************************************************************************)
(* go-fftw (src/fftw.go): aligned allocation, multi-dimensional views and  *)
(* the lifecycle of FFTW plans behind a cgo boundary.                      *)
(*                                                                         *)
(* The native heap is a set of blocks; an address is <<block, element>>.   *)
(* A Go slice is its header [blk, off, len, cap].  A Plan object holds the *)
(* engine handle; the engine's own table of plans records what each handle *)
(* was created with and whether it was destroyed.  The caller is one       *)
(* thread; the runtime's finalizer goroutine runs beside it.               *)
(***************************************************************************)
EXTENDS Integers, Sequences, FiniteSets, TLC

\* ---------------------------------------------------------------- bounds
MaxN == 2
MaxWrap == 1
MaxDim == 2
MaxPlanDim == 1
MaxBlocks == 2
MaxPlans == 1

\* ------------------------------------------------------------- constants
\* sizeof(complex128): the 16 of C.size_t(16 * n).
ElemBytes == 16

Blocks == 1..MaxBlocks
\* The caller's buffer variables: one for an input, one for an output.
Slots == {1, 2}
Null == <<0, 0>>

\* A Go int n (64 bits) is written [hi, lo] with n = hi * 2^60 + lo and
\* 0 <= lo < 2^60.  Only values with a small lo are drawn.
GoInt(hi, lo) == [hi |-> hi, lo |-> lo]

\* C.size_t(16 * n): 16 * (hi * 2^60 + lo) = hi * 2^64 + 16 * lo, and the
\* 64-bit product keeps 16 * lo only.
SizeT16(n) == ElemBytes * n.lo

\* i < n for a small loop index i and a Go int n.
IntLess(i, n) == n.hi > 0 \/ i < n.lo

\* What the native allocator may leave in a fresh block of c elements:
\* element values are 0 or 1 (any non-zero value): all 0, all 1, alternating.
Garbage == 0..2
Fill(c, g) == [i \in 1..c |-> IF g < 2 THEN g ELSE (g + i) % 2]

\* An event of the foreign-call boundary, as recorded in a call's trace.
Event(ev, ok, addr, arg) == [ev |-> ev, ok |-> ok, addr |-> addr, arg |-> arg]

\* ------------------------------------------------------------ allocator
\* fftw_malloc(bytes) succeeding with block b: the block becomes live and
\* holds bytes / 16 elements of garbage.
native_alloc(h, b, bytes, g) ==
    [h EXCEPT ![b] = [st |-> "live", cells |-> Fill(bytes \div ElemBytes, g)]]

\* fftw_free(addr) is defined on the first address of a live block.
ValidFree(h, addr) == addr[1] \in Blocks /\ addr[2] = 0 /\ h[addr[1]].st = "live"

\* fftw_free(addr): a valid free releases the block and its contents.  Any
\* other free is undefined in the native allocator; the actions choose its
\* outcome.
native_free(h, addr) ==
    IF ValidFree(h, addr)
    THEN [h EXCEPT ![addr[1]] = [st |-> "free", cells |-> <<>>]]
    ELSE h

\* The loop `for i := 0; i < n; i++ { slice[i] = 0 }` over the block's
\* cells: writing past the block is a fault.
RECURSIVE ZeroLoop(_, _, _)
ZeroLoop(cells, i, n) ==
    IF ~IntLess(i, n) THEN [fault |-> FALSE, cells |-> cells]
    ELSE IF i + 1 > Len(cells) THEN [fault |-> TRUE, cells |-> cells]
    ELSE ZeroLoop([cells EXCEPT ![i + 1] = 0], i + 1, n)

NoSlice == [blk |-> 0, off |-> 0, len |-> 0, cap |-> 0]

\* Alloc1d(n).  o1, o2: whether the first and the second fftw_malloc return
\* without an error (err == nil); b, g: the block and the garbage a
\* successful call hands back.
Alloc1d(h, n, o1, o2, b, g) ==
    LET bytes == SizeT16(n)
        call(o) == Event("native_alloc", o, IF o THEN <<b, 0>> ELSE Null, bytes)
        trace == IF o1 THEN <<call(o1)>>
                 ELSE <<call(o1), Event("gc", TRUE, Null, 0), call(o2)>>
    IN  IF ~o1 /\ ~o2
        THEN [outcome |-> "panic", trace |-> trace, slice |-> NoSlice, heap |-> h]
        ELSE LET h1 == native_alloc(h, b, bytes, g)
                 z == ZeroLoop(h1[b].cells, 0, n)
                 h2 == [h1 EXCEPT ![b].cells = z.cells]
             IN  IF z.fault
                 THEN [outcome |-> "fault", trace |-> trace, slice |-> NoSlice, heap |-> h2]
                 ELSE [outcome |-> "ok", trace |-> trace,
                       slice |-> [blk |-> b, off |-> 0, len |-> n.lo, cap |-> n.lo],
                       heap |-> h2]

\* a[lo:hi] of a slice a; the bounds were checked by the caller of this.
SliceOf(a, lo, hi) ==
    [blk |-> a.blk, off |-> a.off + lo, len |-> hi - lo, cap |-> a.cap - lo]

\* The rows r[i] = a[i*n1 : (i+1)*n1] of Alloc2d, i = 0 .. n0-1.
Rows2d(a, n0, n1) == [i \in 1..n0 |-> SliceOf(a, (i - 1) * n1, i * n1)]

\* Rows3d with the stride of j taken from n1 instead of n2.
Rows3d_WrongStride(a, n0, n1, n2) ==
    [i \in 1..n0 |->
        [j \in 1..n1 |->
            SliceOf(a, (i - 1) * (n1 * n2) + (j - 1) * n1,
                       (i - 1) * (n1 * n2) + (j - 1) * n1 + n2)]]

\* The rows b[j] = a[i*(n1*n2)+j*n2 : i*(n1*n2)+(j+1)*n2] of Alloc3d.
Rows3d(a, n0, n1, n2) ==
    [i \in 1..n0 |->
        [j \in 1..n1 |->
            SliceOf(a, (i - 1) * (n1 * n2) + (j - 1) * n2,
                       (i - 1) * (n1 * n2) + j * n2)]]

\* &x[i] of a slice: the address of its element i.
AddrOf(s, i) == <<s.blk, s.off + i>>

\* Alloc2d(n0, n1): one Alloc1d, then the row headers.
Alloc2d(h, n0, n1, o1, o2, b, g) ==
    LET a == Alloc1d(h, GoInt(0, n0 * n1), o1, o2, b, g)
    IN  [outcome |-> a.outcome, trace |-> a.trace, heap |-> a.heap,
         v |-> IF a.outcome = "ok" THEN Rows2d(a.slice, n0, n1) ELSE <<>>]

\* Alloc3d(n0, n1, n2): one Alloc1d, then the nested row headers.
Alloc3d(h, n0, n1, n2, o1, o2, b, g) ==
    LET a == Alloc1d(h, GoInt(0, n0 * n1 * n2), o1, o2, b, g)
    IN  [outcome |-> a.outcome, trace |-> a.trace, heap |-> a.heap,
         v |-> IF a.outcome = "ok" THEN Rows3d(a.slice, n0, n1, n2) ELSE <<>>]

\* Free1d(x): &x[0] panics on an empty slice; otherwise one fftw_free.
Free1d(x) ==
    IF x.len = 0 THEN [outcome |-> "panic", trace |-> <<>>]
    ELSE [outcome |-> "ok",
          trace |-> <<Event("native_free", TRUE, AddrOf(x, 0), 0)>>]

\* Free2d(x): &x[0][0].
Free2d(x) ==
    IF Len(x) = 0 THEN [outcome |-> "panic", trace |-> <<>>]
    ELSE IF x[1].len = 0 THEN [outcome |-> "panic", trace |-> <<>>]
    ELSE [outcome |-> "ok",
          trace |-> <<Event("native_free", TRUE, AddrOf(x[1], 0), 0)>>]

\* Free3d(x): &x[0][0][0].
Free3d(x) ==
    IF Len(x) = 0 THEN [outcome |-> "panic", trace |-> <<>>]
    ELSE IF Len(x[1]) = 0 THEN [outcome |-> "panic", trace |-> <<>>]
    ELSE IF x[1][1].len = 0 THEN [outcome |-> "panic", trace |-> <<>>]
    ELSE [outcome |-> "ok",
          trace |-> <<Event("native_free", TRUE, AddrOf(x[1][1], 0), 0)>>]

\* ----------------------------------------------------------------- plans
Directions == {"FFTW_FORWARD", "FFTW_BACKWARD"}
Flags == {"FFTW_ESTIMATE", "FFTW_MEASURE"}

PlanIds == 1..MaxPlans
\* Engine handles: 0 is the NULL plan, the others are engine plans.
Handles == 0..MaxPlans

\* A []float64 of the caller lives in Go's own heap, outside the blocks.
RealBlk == MaxBlocks + 1
RealSlice(m) == [blk |-> RealBlk, off |-> 0, len |-> m, cap |-> m]

\* One call of a planner of the engine, with what it returned.
Create(kind, dims, inA, outA, dir, flag, ret) ==
    [kind |-> kind, dims |-> dims, inA |-> inA, outA |-> outA,
     dir |-> dir, flag |-> flag, ret |-> ret]
NoCall == Create("none", <<>>, Null, Null, "none", "none", 0)

Panicked == [outcome |-> "panic", call |-> NoCall]

\* PlanDft1d with the check of its TODO: unequal lengths are refused.
PlanDft1d_Checked(in, out, dir, flag, ret) ==
    IF in.len = 0 \/ out.len = 0 \/ in.len # out.len THEN Panicked
    ELSE [outcome |-> "ok",
          call |-> Create("dft_1d", <<in.len>>, AddrOf(in, 0), AddrOf(out, 0),
                          dir, flag, ret)]

\* PlanDft1d(in, out, dir, flag); ret is what fftw_plan_dft_1d returns.
PlanDft1d(in, out, dir, flag, ret) ==
    IF in.len = 0 \/ out.len = 0 THEN Panicked
    ELSE [outcome |-> "ok",
          call |-> Create("dft_1d", <<in.len>>, AddrOf(in, 0), AddrOf(out, 0),
                          dir, flag, ret)]

\* &x[0][0] of a 2D view exists.
Has2d(x) == Len(x) > 0 /\ x[1].len > 0
\* &x[0][0][0] of a 3D view exists.
Has3d(x) == Len(x) > 0 /\ Len(x[1]) > 0 /\ x[1][1].len > 0

\* PlanDft2d(in, out, dir, flag).
PlanDft2d(in, out, dir, flag, ret) ==
    IF ~Has2d(in) \/ ~Has2d(out) THEN Panicked
    ELSE [outcome |-> "ok",
          call |-> Create("dft_2d", <<Len(in), in[1].len>>,
                          AddrOf(in[1], 0), AddrOf(out[1], 0), dir, flag, ret)]

\* PlanDft3d(in, out, dir, flag).
PlanDft3d(in, out, dir, flag, ret) ==
    IF ~Has3d(in) \/ ~Has3d(out) THEN Panicked
    ELSE [outcome |-> "ok",
          call |-> Create("dft_3d", <<Len(in), Len(in[1]), in[1][1].len>>,
                          AddrOf(in[1][1], 0), AddrOf(out[1][1], 0), dir, flag, ret)]

\* PlanDftR2C1d(in, out, flag): in is the real array.
PlanDftR2C1d(in, out, flag, ret) ==
    IF in.len = 0 \/ out.len = 0 THEN Panicked
    ELSE [outcome |-> "ok",
          call |-> Create("dft_r2c_1d", <<in.len>>, AddrOf(in, 0), AddrOf(out, 0),
                          "none", flag, ret)]

\* PlanDftC2R1d(in, out, flag): out is the real array.
PlanDftC2R1d(in, out, flag, ret) ==
    IF in.len = 0 \/ out.len = 0 THEN Panicked
    ELSE [outcome |-> "ok",
          call |-> Create("dft_c2r_1d", <<out.len>>, AddrOf(in, 0), AddrOf(out, 0),
                          "none", flag, ret)]

NoPlan == [made |-> FALSE, fftw_p |-> 0, held |-> FALSE, finalizer |-> FALSE,
           finalized |-> FALSE]

\* newPlan without runtime.SetFinalizer.
newPlan_NoFinalizer(ps, p, fftw_p, held) ==
    [ps EXCEPT ![p] = [made |-> TRUE, fftw_p |-> fftw_p, held |-> held,
                       finalizer |-> FALSE, finalized |-> FALSE]]

\* newPlan(fftw_p): a new Plan object p with the finalizer set; held says
\* whether the caller keeps the pointer it is given.
newPlan(ps, p, fftw_p, held) ==
    [ps EXCEPT ![p] = [made |-> TRUE, fftw_p |-> fftw_p, held |-> held,
                       finalizer |-> TRUE, finalized |-> FALSE]]

\* destroyPlan(p): fftw_destroy_plan(p.fftw_p) on the engine's table.
destroyPlan(e, fftw_p) ==
    IF fftw_p = 0 THEN e ELSE [e EXCEPT ![fftw_p].st = "destroyed"]

\* ----------------------------------------------------------------- state
VARIABLES
    heap,      \* the native heap: block -> [st, cells]
    bufs,      \* the caller's buffer variables: slot -> [dim, v, origin]
    plans,     \* the Plan objects of the Go heap
    engine,    \* the engine's plans: handle -> [st, inA, outA]
    ndestroy,  \* handle -> number of fftw_destroy_plan calls on it
    pc,        \* where the caller is inside Execute
    last,      \* the last call of the public interface and what it did
    halted     \* the process has died: a panic nobody recovers, or a fault

vars == <<heap, bufs, plans, engine, ndestroy, pc, last, halted>>

NoBuf == [dim |-> 0, v |-> NoSlice, origin |-> Null]
Idle == [at |-> "idle", p |-> 0, h |-> 0]

\* The record of a call: the operation, how it ended, the allocator and
\* executor calls it made, its arguments (slot: the buffer variable it was
\* given or assigns, out: the output buffer variable, n and dims: sizes),
\* the Plan it made or ran, and the planner call it made.
Call(op, outcome, trace, slot, out, n, dims, p, call) ==
    [op |-> op, outcome |-> outcome, trace |-> trace, slot |-> slot, out |-> out,
     n |-> n, dims |-> dims, p |-> p, call |-> call]

Init ==
    /\ heap = [b \in Blocks |-> [st |-> "free", cells |-> <<>>]]
    /\ bufs = [s \in Slots |-> NoBuf]
    /\ plans = [p \in PlanIds |-> NoPlan]
    /\ engine = [h \in PlanIds |-> [st |-> "none", inA |-> Null, outA |-> Null]]
    /\ ndestroy = [h \in Handles |-> 0]
    /\ pc = Idle
    /\ last = Call("none", "ok", <<>>, 0, 0, GoInt(0, 0), <<>>, 0, NoCall)
    /\ halted = FALSE

\* The caller is between two calls.
CallerReady == ~halted /\ pc.at = "idle"

\* A successful fftw_malloc hands back a block that is not in use.  (The
\* second call is made only when the first failed.)
CanAlloc(o1, o2, b) == (o1 => o2) /\ ((o1 \/ o2) => heap[b].st # "live")

\* The caller assigns a buffer variable only when it holds no live buffer:
\* it frees what it allocated before it allocates again.
Vacant(s) ==
    IF bufs[s].dim = 0 THEN TRUE ELSE heap[bufs[s].origin[1]].st # "live"

\* ------------------------------------------------------ allocator actions
DoAlloc1d(S, N, O) ==
    /\ CallerReady
    /\ \E s \in S, n \in N, o1, o2 \in O, b \in Blocks, g \in Garbage :
        LET r == Alloc1d(heap, n, o1, o2, b, g)
        IN  /\ Vacant(s)
            /\ CanAlloc(o1, o2, b)
            /\ heap' = r.heap
            /\ bufs' = IF r.outcome = "ok"
                       THEN [bufs EXCEPT ![s] = [dim |-> 1, v |-> r.slice,
                                                 origin |-> <<b, 0>>]]
                       ELSE bufs
            /\ halted' = (r.outcome # "ok")
            /\ last' = Call("Alloc1d", r.outcome, r.trace, s, 0, n, <<>>, 0, NoCall)
    /\ UNCHANGED <<plans, engine, ndestroy, pc>>

DoAlloc2d(S, D, O) ==
    /\ CallerReady
    /\ \E s \in S, n0, n1 \in D, o1, o2 \in O, b \in Blocks, g \in Garbage :
        LET r == Alloc2d(heap, n0, n1, o1, o2, b, g)
        IN  /\ Vacant(s)
            /\ CanAlloc(o1, o2, b)
            /\ heap' = r.heap
            /\ bufs' = IF r.outcome = "ok"
                       THEN [bufs EXCEPT ![s] = [dim |-> 2, v |-> r.v,
                                                 origin |-> <<b, 0>>]]
                       ELSE bufs
            /\ halted' = (r.outcome # "ok")
            /\ last' = Call("Alloc2d", r.outcome, r.trace, s, 0, GoInt(0, n0 * n1),
                            <<n0, n1>>, 0, NoCall)
    /\ UNCHANGED <<plans, engine, ndestroy, pc>>

DoAlloc3d(S, D, O) ==
    /\ CallerReady
    /\ \E s \in S, n0, n1, n2 \in D, o1, o2 \in O, b \in Blocks,
          g \in Garbage :
        LET r == Alloc3d(heap, n0, n1, n2, o1, o2, b, g)
        IN  /\ Vacant(s)
            /\ CanAlloc(o1, o2, b)
            /\ heap' = r.heap
            /\ bufs' = IF r.outcome = "ok"
                       THEN [bufs EXCEPT ![s] = [dim |-> 3, v |-> r.v,
                                                 origin |-> <<b, 0>>]]
                       ELSE bufs
            /\ halted' = (r.outcome # "ok")
            /\ last' = Call("Alloc3d", r.outcome, r.trace, s, 0,
                            GoInt(0, n0 * n1 * n2), <<n0, n1, n2>>, 0, NoCall)
    /\ UNCHANGED <<plans, engine, ndestroy, pc>>

\* A Free that refuses a buffer some live plan is bound to.
FreeEffect_Tracked(op, s, r) ==
    LET bound == /\ r.outcome = "ok"
                 /\ \E h \in 1..MaxPlans :
                       /\ engine[h].st = "live"
                       /\ r.trace[1].addr \in {engine[h].inA, engine[h].outA}
    IN  /\ UNCHANGED <<bufs, plans, engine, ndestroy, pc>>
        /\ IF bound
           THEN /\ last' = Call(op, "error", <<>>, s, 0, GoInt(0, 0), <<>>, 0, NoCall)
                /\ UNCHANGED <<heap, halted>>
           ELSE /\ last' = Call(op, r.outcome, r.trace, s, 0, GoInt(0, 0), <<>>,
                                0, NoCall)
                /\ IF r.outcome = "panic"
                   THEN heap' = heap /\ halted' = TRUE
                   ELSE IF ValidFree(heap, r.trace[1].addr)
                        THEN heap' = native_free(heap, r.trace[1].addr)
                             /\ UNCHANGED halted
                        ELSE heap' = heap /\ halted' \in BOOLEAN

\* The effect of a Free call r on the heap.  A free the native allocator
\* does not define (a block already freed) either kills the process or
\* goes unnoticed.
FreeEffect(op, s, r) ==
    /\ last' = Call(op, r.outcome, r.trace, s, 0, GoInt(0, 0), <<>>, 0, NoCall)
    /\ IF r.outcome = "panic"
       THEN heap' = heap /\ halted' = TRUE
       ELSE LET addr == r.trace[1].addr
            IN  IF ValidFree(heap, addr)
                THEN heap' = native_free(heap, addr) /\ UNCHANGED halted
                ELSE heap' = heap /\ halted' \in BOOLEAN
    /\ UNCHANGED <<bufs, plans, engine, ndestroy, pc>>

DoFree1d ==
    /\ CallerReady
    /\ \E s \in Slots :
        /\ bufs[s].dim = 1
        /\ FreeEffect("Free1d", s, Free1d(bufs[s].v))

DoFree2d ==
    /\ CallerReady
    /\ \E s \in Slots :
        /\ bufs[s].dim = 2
        /\ FreeEffect("Free2d", s, Free2d(bufs[s].v))

DoFree3d ==
    /\ CallerReady
    /\ \E s \in Slots :
        /\ bufs[s].dim = 3
        /\ FreeEffect("Free3d", s, Free3d(bufs[s].v))

\* The sizes the allocator is driven with.
AllocSizes == {GoInt(q, r) : q \in 0..MaxWrap, r \in 0..MaxN}
AllocDims == 0..MaxDim

\* ----------------------------------------------------------- plan actions
\* The Plan object the next newPlan allocates.
FreshPlan(p) == ~plans[p].made /\ \A q \in 1..(p - 1) : plans[q].made

\* The engine's planner: NULL, or a new plan bound to the two addresses.
plan_create(e, c) ==
    IF c.ret = 0 THEN e
    ELSE [e EXCEPT ![c.ret] = [st |-> "live", inA |-> c.inA, outA |-> c.outA]]

\* What a plan-creation call r leaves behind.  held: the caller keeps the
\* *Plan (PlanDft...); otherwise the call goes on into p.Execute() (Dft...),
\* up to its read of p.fftw_p.  si, so, m: the arguments, for the record.
PlanEffect(op, r, p, held, si, so, m) ==
    /\ last' = Call(op, r.outcome, <<>>, si, so, GoInt(0, 0), m,
                    IF r.outcome = "ok" THEN p ELSE 0, r.call)
    /\ IF r.outcome = "panic"
       THEN halted' = TRUE /\ UNCHANGED <<plans, engine, pc>>
       ELSE /\ engine' = plan_create(engine, r.call)
            /\ plans' = newPlan(plans, p, r.call.ret, held)
            /\ pc' = IF held THEN pc
                     ELSE [at |-> "loaded", p |-> p, h |-> r.call.ret]
            /\ halted' = FALSE
    /\ UNCHANGED <<heap, bufs, ndestroy>>

\* PlanDft1d, or Dft1d when held is FALSE.
Plan1d(op, held, P, S, Dirs, Flgs, Rets) ==
    \E p \in P, si, so \in S, dir \in Dirs, flag \in Flgs, ok \in Rets :
        /\ FreshPlan(p)
        /\ bufs[si].dim = 1 /\ bufs[so].dim = 1
        /\ PlanEffect(op, PlanDft1d(bufs[si].v, bufs[so].v, dir, flag,
                                    IF ok THEN p ELSE 0), p, held,
                      si, so, <<>>)

Plan2d(op, held, P, S, Dirs, Flgs, Rets) ==
    \E p \in P, si, so \in S, dir \in Dirs, flag \in Flgs, ok \in Rets :
        /\ FreshPlan(p)
        /\ bufs[si].dim = 2 /\ bufs[so].dim = 2
        /\ PlanEffect(op, PlanDft2d(bufs[si].v, bufs[so].v, dir, flag,
                                    IF ok THEN p ELSE 0), p, held,
                      si, so, <<>>)

Plan3d(op, held, P, S, Dirs, Flgs, Rets) ==
    \E p \in P, si, so \in S, dir \in Dirs, flag \in Flgs, ok \in Rets :
        /\ FreshPlan(p)
        /\ bufs[si].dim = 3 /\ bufs[so].dim = 3
        /\ PlanEffect(op, PlanDft3d(bufs[si].v, bufs[so].v, dir, flag,
                                    IF ok THEN p ELSE 0), p, held,
                      si, so, <<>>)

DoPlanDft1d(P, S, Dirs, Flgs, Rets) ==
    /\ CallerReady
    /\ Plan1d("PlanDft1d", TRUE, P, S, Dirs, Flgs, Rets)
DoPlanDft2d(P, S, Dirs, Flgs, Rets) ==
    /\ CallerReady
    /\ Plan2d("PlanDft2d", TRUE, P, S, Dirs, Flgs, Rets)
DoPlanDft3d(P, S, Dirs, Flgs, Rets) ==
    /\ CallerReady
    /\ Plan3d("PlanDft3d", TRUE, P, S, Dirs, Flgs, Rets)

\* The real array is a []float64 of the caller, of length m in M.
DoPlanDftR2C1d(P, S, M, Flgs, Rets) ==
    /\ CallerReady
    /\ \E p \in P, so \in S, m \in M, flag \in Flgs, ok \in Rets :
        /\ FreshPlan(p)
        /\ bufs[so].dim = 1
        /\ PlanEffect("PlanDftR2C1d",
                      PlanDftR2C1d(RealSlice(m), bufs[so].v, flag,
                                   IF ok THEN p ELSE 0), p, TRUE, 0, so, <<m>>)

DoPlanDftC2R1d(P, S, M, Flgs, Rets) ==
    /\ CallerReady
    /\ \E p \in P, si \in S, m \in M, flag \in Flgs, ok \in Rets :
        /\ FreshPlan(p)
        /\ bufs[si].dim = 1
        /\ PlanEffect("PlanDftC2R1d",
                      PlanDftC2R1d(bufs[si].v, RealSlice(m), flag,
                                   IF ok THEN p ELSE 0), p, TRUE, si, 0, <<m>>)

\* Dft1d/2d/3d: p := PlanDft..(); p.Execute().  The Plan is referenced by
\* nothing but this call.
DoDft1d(P, S, Dirs, Flgs, Rets) ==
    /\ CallerReady
    /\ Plan1d("Dft1d", FALSE, P, S, Dirs, Flgs, Rets)
DoDft2d(P, S, Dirs, Flgs, Rets) ==
    /\ CallerReady
    /\ Plan2d("Dft2d", FALSE, P, S, Dirs, Flgs, Rets)
DoDft3d(P, S, Dirs, Flgs, Rets) ==
    /\ CallerReady
    /\ Plan3d("Dft3d", FALSE, P, S, Dirs, Flgs, Rets)

\* p.Execute() by the owner of p, up to its read of p.fftw_p: the argument
\* of the foreign call is evaluated, and Execute uses p no more.
DoExecute ==
    /\ CallerReady
    /\ \E p \in PlanIds :
        /\ plans[p].made /\ plans[p].held
        /\ pc' = [at |-> "loaded", p |-> p, h |-> plans[p].fftw_p]
        /\ last' = Call("Execute", "ok", <<>>, 0, 0, GoInt(0, 0), <<>>, p, NoCall)
    /\ UNCHANGED <<heap, bufs, plans, engine, ndestroy, halted>>

\* A plan of the engine bound to memory that is no longer allocated.
Stale(h) ==
    \E a \in {engine[h].inA, engine[h].outA} :
        a[1] \in Blocks /\ heap[a[1]].st # "live"

\* C.fftw_execute(h) is entered with the handle read before.  On NULL the
\* engine faults; on a destroyed plan or on freed buffers what it does is
\* undefined: the process dies or goes on.
ExecCall ==
    /\ ~halted
    /\ pc.at = "loaded"
    /\ pc' = [pc EXCEPT !.at = "running"]
    /\ last' = Call("Execute", "running",
                    <<Event("plan_execute", TRUE, Null, pc.h)>>,
                    0, 0, GoInt(0, 0), <<>>, pc.p, NoCall)
    /\ IF pc.h = 0 THEN halted' = TRUE
       ELSE IF engine[pc.h].st = "destroyed" \/ Stale(pc.h)
            THEN halted' \in BOOLEAN
            ELSE halted' = FALSE
    /\ UNCHANGED <<heap, bufs, plans, engine, ndestroy>>

\* C.fftw_execute returns, and Execute with it.
ExecReturn ==
    /\ ~halted
    /\ pc.at = "running"
    /\ pc' = Idle
    /\ last' = Call("Execute", "returned", <<>>, 0, 0, GoInt(0, 0), <<>>, pc.p, NoCall)
    /\ UNCHANGED <<heap, bufs, plans, engine, ndestroy, halted>>

\* The caller lets go of its *Plan.
DoDrop ==
    /\ CallerReady
    /\ \E p \in PlanIds :
        /\ plans[p].made /\ plans[p].held
        /\ plans' = [plans EXCEPT ![p].held = FALSE]
        /\ last' = Call("drop", "ok", <<>>, 0, 0, GoInt(0, 0), <<>>, p, NoCall)
    /\ UNCHANGED <<heap, bufs, engine, ndestroy, pc, halted>>

\* A collector that takes every Plan for garbage.
Unreachable_Always(p) == plans[p].made

\* No pointer to the Plan object is left: the caller dropped it (or never
\* had it), and Execute has read its field.
Unreachable(p) == plans[p].made /\ ~plans[p].held

\* The runtime, in its finalizer goroutine, runs the finalizer of an
\* unreachable Plan, once: destroyPlan(p).
Finalize(p) ==
    /\ ~halted
    /\ Unreachable(p)
    /\ plans[p].finalizer
    /\ ~plans[p].finalized
    /\ engine' = destroyPlan(engine, plans[p].fftw_p)
    /\ ndestroy' = [ndestroy EXCEPT ![plans[p].fftw_p] = @ + 1]
    /\ plans' = [plans EXCEPT ![p].finalized = TRUE]
    /\ UNCHANGED <<heap, bufs, pc, last, halted>>

\* --------------------------------------------------------- specifications
\* The allocator alone: a caller with one buffer variable.
NextAlloc ==
    \/ DoAlloc1d({1}, AllocSizes, BOOLEAN)
    \/ DoAlloc2d({1}, AllocDims, BOOLEAN)
    \/ DoAlloc3d({1}, AllocDims, BOOLEAN)
    \/ DoFree1d
    \/ DoFree2d
    \/ DoFree3d

SpecAlloc == Init /\ [][NextAlloc]_vars

\* The creation of a plan over two buffers of every shape, degenerate ones
\* included.
PlanSizes == {GoInt(0, r) : r \in 0..(MaxPlanDim + 1)}
PlanDims == 0..MaxPlanDim
RealLens == 0..(MaxPlanDim + 1)

NextCreate ==
    \/ DoAlloc1d(Slots, PlanSizes, {TRUE})
    \/ DoAlloc2d(Slots, PlanDims, {TRUE})
    \/ DoAlloc3d(Slots, PlanDims, {TRUE})
    \/ DoPlanDft1d({1}, Slots, Directions, Flags, BOOLEAN)
    \/ DoPlanDft2d({1}, Slots, Directions, Flags, BOOLEAN)
    \/ DoPlanDft3d({1}, Slots, Directions, Flags, BOOLEAN)
    \/ DoPlanDftR2C1d({1}, Slots, RealLens, Flags, BOOLEAN)
    \/ DoPlanDftC2R1d({1}, Slots, RealLens, Flags, BOOLEAN)

SpecCreate == Init /\ [][NextCreate]_vars

\* The life of plans: the caller and the finalizer goroutine.  The shape
\* of the buffers plays no part in it: they have one element, and each
\* transform is done in place on the caller's one buffer.
LifeSizes == {GoInt(0, 1)}
LifeDims == {1}
LifeDirs == {"FFTW_FORWARD"}
LifeFlags == {"FFTW_ESTIMATE"}

Next ==
    \/ DoAlloc1d({1}, LifeSizes, {TRUE})
    \/ DoAlloc2d({1}, LifeDims, {TRUE})
    \/ DoAlloc3d({1}, LifeDims, {TRUE})
    \/ DoFree1d
    \/ DoFree2d
    \/ DoFree3d
    \/ DoPlanDft1d(PlanIds, {1}, LifeDirs, LifeFlags, BOOLEAN)
    \/ DoPlanDft2d(PlanIds, {1}, LifeDirs, LifeFlags, BOOLEAN)
    \/ DoPlanDft3d(PlanIds, {1}, LifeDirs, LifeFlags, BOOLEAN)
    \/ DoPlanDftR2C1d(PlanIds, {1}, LifeDims, LifeFlags, BOOLEAN)
    \/ DoPlanDftC2R1d(PlanIds, {1}, LifeDims, LifeFlags, BOOLEAN)
    \/ DoDft1d(PlanIds, {1}, LifeDirs, LifeFlags, BOOLEAN)
    \/ DoDft2d(PlanIds, {1}, LifeDirs, LifeFlags, BOOLEAN)
    \/ DoDft3d(PlanIds, {1}, LifeDirs, LifeFlags, BOOLEAN)
    \/ DoExecute
    \/ ExecCall
    \/ ExecReturn
    \/ DoDrop
    \/ \E p \in PlanIds : Finalize(p)

Spec == Init /\ [][Next]_vars

\* The runtime runs the finalizer of every Plan that stays unreachable.
FairSpec == Spec /\ \A p \in PlanIds : WF_vars(Finalize(p))

\* ------------------------------------------------------- allocator claims
\* The foreign calls of the last call, by kind.
Allocs(t) == {k \in 1..Len(t) : t[k].ev = "native_alloc"}
AllocsOk(t) == {k \in Allocs(t) : t[k].ok}
Gcs(t) == {k \in 1..Len(t) : t[k].ev = "gc"}
AfterAlloc1d == last.op = "Alloc1d"
FreeOps == {"Free1d", "Free2d", "Free3d"}

\* C1: Alloc1d calls the native allocator once; only if that call fails
\* it runs one garbage collection and calls the allocator once more; if
\* that fails too it panics and returns no buffer.  At most two allocator
\* calls, at most one collection and only between them, and a buffer is
\* returned if and only if one of the attempts succeeded.
C1_RetryPolicy ==
    AfterAlloc1d =>
        LET t == last.trace
        IN  /\ Cardinality(Allocs(t)) \in {1, 2}
            /\ Cardinality(Gcs(t)) <= 1
            /\ t[1].ev = "native_alloc"
            /\ t[1].ok => Len(t) = 1
            /\ ~t[1].ok => /\ Len(t) = 3
                           /\ t[2].ev = "gc"
                           /\ t[3].ev = "native_alloc"
            /\ (last.outcome = "panic") <=> (AllocsOk(t) = {})
            /\ (last.outcome = "ok") <=> (AllocsOk(t) # {})
            /\ last.outcome \in {"ok", "panic"}

\* C2: for every n >= 0 for which allocation succeeds, Alloc1d(n) returns
\* a buffer of length n and capacity n whose elements 0..n-1 are all
\* zero, whatever the allocator left in the memory.
C2_ZeroedBuffer ==
    (AfterAlloc1d /\ AllocsOk(last.trace) # {}) =>
        LET x == bufs[last.slot].v
        IN  /\ last.outcome = "ok"
            /\ last.n.hi = 0
            /\ x.len = last.n.lo
            /\ x.cap = last.n.lo
            /\ \A i \in 0..(last.n.lo - 1) :
                   heap[x.blk].cells[x.off + i + 1] = 0

\* C3: Alloc2d and Alloc3d make one Alloc1d call (one native allocation of
\* n0*n1, resp. n0*n1*n2, elements) and return views over that one flat
\* buffer in row-major order: [i][j] is flat element i*n1+j, [i][j][k] is
\* flat element i*n1*n2+j*n2+k, every innermost row has length n1 (resp.
\* n2), and the rows cover every flat element exactly once.
C3_RowMajorViews ==
    (last.op \in {"Alloc2d", "Alloc3d"} /\ last.outcome = "ok") =>
        LET t == last.trace
            x == bufs[last.slot].v
            base == bufs[last.slot].origin
            d == last.dims
        IN  /\ Cardinality(AllocsOk(t)) = 1
            /\ Len(t) \in {1, 3}
            /\ \A k \in AllocsOk(t) :
                   /\ t[k].addr = base
                   /\ t[k].arg = ElemBytes * last.n.lo
            /\ last.op = "Alloc2d" =>
                /\ last.n.lo = d[1] * d[2]
                /\ Len(x) = d[1]
                /\ \A i \in 1..d[1] :
                       /\ x[i].len = d[2]
                       /\ \A j \in 0..(d[2] - 1) :
                              AddrOf(x[i], j) = <<base[1], (i - 1) * d[2] + j>>
                /\ \A e \in 0..(d[1] * d[2] - 1) :
                       Cardinality({ij \in (1..d[1]) \X (0..(d[2] - 1)) :
                                       AddrOf(x[ij[1]], ij[2]) = <<base[1], e>>}) = 1
            /\ last.op = "Alloc3d" =>
                /\ last.n.lo = d[1] * d[2] * d[3]
                /\ Len(x) = d[1]
                /\ \A i \in 1..d[1] :
                       /\ Len(x[i]) = d[2]
                       /\ \A j \in 1..d[2] :
                              /\ x[i][j].len = d[3]
                              /\ \A k \in 0..(d[3] - 1) :
                                     AddrOf(x[i][j], k) =
                                         <<base[1], (i - 1) * d[2] * d[3]
                                                    + (j - 1) * d[3] + k>>
                /\ \A e \in 0..(d[1] * d[2] * d[3] - 1) :
                       Cardinality({ijk \in (1..d[1]) \X (1..d[2]) \X (0..(d[3] - 1)) :
                                       AddrOf(x[ijk[1]][ijk[2]], ijk[3])
                                           = <<base[1], e>>}) = 1

\* A 3D view of two planes of two rows of two elements has been returned.
C3_Witness ==
    /\ last.op = "Alloc3d"
    /\ last.outcome = "ok"
    /\ last.dims = <<MaxDim, MaxDim, MaxDim>>
    /\ Len(bufs[last.slot].v) = MaxDim

\* C4: the address Free1d/2d/3d passes to native_free is the address
\* native_alloc returned for that buffer, and each Free call issues
\* exactly one native_free.
C4_FreeFirstAddress ==
    (last.op \in FreeOps) =>
        /\ Len(last.trace) = 1
        /\ last.trace[1].ev = "native_free"
        /\ last.trace[1].addr = bufs[last.slot].origin

\* ---------------------------------------------------- plan-creation claims
CreateOps == {"PlanDft1d", "PlanDft2d", "PlanDft3d", "PlanDftR2C1d", "PlanDftC2R1d"}
OpDim(op) == IF op = "PlanDft2d" THEN 2 ELSE IF op = "PlanDft3d" THEN 3 ELSE 1
OpKind(op) ==
    CASE op = "PlanDft1d" -> "dft_1d"
      [] op = "PlanDft2d" -> "dft_2d"
      [] op = "PlanDft3d" -> "dft_3d"
      [] op = "PlanDftR2C1d" -> "dft_r2c_1d"
      [] op = "PlanDftC2R1d" -> "dft_c2r_1d"

\* The arrays the last plan-creation call was given.
InArg == IF last.op = "PlanDftR2C1d" THEN RealSlice(last.dims[1])
         ELSE bufs[last.slot].v
OutArg == IF last.op = "PlanDftC2R1d" THEN RealSlice(last.dims[1])
          ELSE bufs[last.out].v
\* The array whose shape is passed on: the input, the real array for C2R.
ShapeArg == IF last.op = "PlanDftC2R1d" THEN OutArg ELSE InArg

\* An array of dimension d has a first element; its address; its shape.
NonEmpty(d, x) ==
    CASE d = 1 -> x.len > 0
      [] d = 2 -> Len(x) > 0 /\ x[1].len > 0
      [] d = 3 -> Len(x) > 0 /\ Len(x[1]) > 0 /\ x[1][1].len > 0
FirstAddr(d, x) ==
    CASE d = 1 -> <<x.blk, x.off>>
      [] d = 2 -> <<x[1].blk, x[1].off>>
      [] d = 3 -> <<x[1][1].blk, x[1][1].off>>
ShapeOf(d, x) ==
    CASE d = 1 -> <<x.len>>
      [] d = 2 -> <<Len(x), x[1].len>>
      [] d = 3 -> <<Len(x), Len(x[1]), x[1][1].len>>

\* The last call passed the shape and both addresses on to the planner and
\* wrapped what the planner returned in a new Plan.
Forwarded ==
    LET d == OpDim(last.op)
        c == last.call
    IN  /\ last.outcome = "ok"
        /\ c.kind = OpKind(last.op)
        /\ c.dims = ShapeOf(d, ShapeArg)
        /\ c.inA = FirstAddr(d, InArg)
        /\ c.outA = FirstAddr(d, OutArg)
        /\ last.p \in PlanIds
        /\ plans[last.p].made
        /\ plans[last.p].fftw_p = c.ret

C5_ReleasedOnce ==
    /\ [](\A h \in PlanIds : ndestroy[h] <= 1)
    /\ [](\A p \in PlanIds :
            (plans[p].finalized /\ plans[p].fftw_p # 0) =>
                /\ ndestroy[plans[p].fftw_p] = 1
                /\ engine[plans[p].fftw_p].st = "destroyed")
    /\ \A p \in PlanIds :
         Unreachable(p) ~> (plans[p].finalized \/ halted)

\* The finalizer of a Plan has destroyed its engine plan.
C5_Witness ==
    \E p \in PlanIds :
        /\ plans[p].finalized
        /\ plans[p].fftw_p # 0
        /\ ndestroy[plans[p].fftw_p] = 1

\* The step in which Execute enters C.fftw_execute.
ExecCallStep == pc.at = "loaded" /\ pc'.at = "running"

\* C6: when Execute is invoked on a Plan whose engine plan has been
\* destroyed, the caller gets an explicit error and plan_execute is not
\* run on the destroyed handle.
C6_ExecuteDestroyedIsError ==
    [][(ExecCallStep /\ pc.h # 0 /\ engine[pc.h].st = "destroyed") =>
          /\ last'.outcome = "error"
          /\ Len(last'.trace) = 0]_vars

\* C7 (as stated): the owner of an Executable Plan can, by a call of the
\* public interface, have plan_destroy invoked on its handle while it
\* still holds the Plan.
C7_ExplicitRelease ==
    \A p \in PlanIds :
        (CallerReady /\ plans[p].made /\ plans[p].held /\ plans[p].fftw_p # 0
            /\ engine[plans[p].fftw_p].st = "live") =>
        ENABLED (Next /\ engine'[plans[p].fftw_p].st = "destroyed")

\* C7 (amended): no call of the public interface destroys a plan: an
\* engine plan is destroyed only by the finalizer, in a step that is no
\* call of the caller, when the Plan wrapping it is unreachable.
C7_ReleaseOnlyByFinalizer ==
    [][\A h \in PlanIds :
          (engine[h].st = "live" /\ engine'[h].st = "destroyed") =>
              /\ last' = last
              /\ pc' = pc
              /\ \E p \in PlanIds :
                    /\ plans[p].made
                    /\ plans[p].fftw_p = h
                    /\ ~plans[p].held
                    /\ plans'[p].finalized]_vars

\* An engine plan was destroyed after its owner had dropped the Plan.
C7_Witness ==
    \E h \in PlanIds :
        /\ engine[h].st = "destroyed"
        /\ last.op = "drop"
        /\ last.p = h

\* The step of a Free1d/2d/3d call.
FreeStep ==
    /\ last'.op \in FreeOps
    /\ pc.at = "idle"
    /\ last' # last \/ heap' # heap \/ halted' # halted

\* C9: Free1d/2d/3d calls native_free whether or not Plans are bound to the
\* buffer and leaves every Plan as it was; and Execute on a Plan one of
\* whose buffers was freed is passed to plan_execute, not rejected.
C9_FreeIgnoresPlans ==
    [][/\ FreeStep =>
            /\ plans' = plans
            /\ engine' = engine
            /\ ndestroy' = ndestroy
            /\ NonEmpty(bufs[last'.slot].dim, bufs[last'.slot].v) =>
                  /\ Len(last'.trace) = 1
                  /\ last'.trace[1].ev = "native_free"
                  /\ last'.trace[1].addr =
                         FirstAddr(bufs[last'.slot].dim, bufs[last'.slot].v)
       /\ (ExecCallStep /\ pc.h # 0) =>
            /\ Len(last'.trace) = 1
            /\ last'.trace[1].ev = "plan_execute"
            /\ last'.trace[1].arg = pc.h
            /\ engine' = engine]_vars

\* A Plan the caller still holds, not destroyed, is executing on a buffer
\* that was freed.
C9_Witness ==
    /\ pc.at = "running"
    /\ pc.h # 0
    /\ plans[pc.p].held
    /\ engine[pc.h].st = "live"
    /\ Stale(pc.h)
    /\ last.trace[1].ev = "plan_execute"

\* C10: plan_destroy is invoked on an engine handle only after every
\* plan_execute call on it has returned: no plan_execute is entered or
\* running on a destroyed handle.
C10_NoDestroyInUse ==
    (pc.at = "running" /\ pc.h # 0) => engine[pc.h].st # "destroyed"

====
